---- MODULE Spec2Model ----
(***************************************************************************)
(* Model of GOdata.py: the GOspecs class (constructor, upward traversals,  *)
(* childrenOf, parentsIn) and the OBO-XML SAX handler of parseOBOXML.      *)
(*                                                                         *)
(* Python values are represented as follows.                               *)
(*   dict            a function; its keys are its DOMAIN                   *)
(*   list            a sequence                                            *)
(*   set             a set                                                 *)
(*   (GOterm, gene)  a pair <<GOterm, gene>>                               *)
(*   an exception    a string naming its class, in a field "outcome"       *)
(***************************************************************************)
EXTENDS Integers, Sequences, FiniteSets, TLC

VARIABLES
    parentDict,     \* the child -> parent list dict handed to GOspecs (shared, mutated in place)
    canonid,        \* the alias -> canonical dict handed to GOspecs
    slim,           \* the slim list handed to GOspecs
    namespaceSets,  \* GOspecs.namespaceSets, a class attribute
    args,           \* the arguments of the latest constructor call that vary: associations
    inst,           \* the latest GOspecs instance (or what its constructor raised)
    query,          \* the latest childrenOf / parentsIn call and what it gave
    gen,            \* the generator object of the latest traverseDepthFirst call
    handler,        \* the OBOXMLHandler's own attributes: id, read_to
    doc,            \* what the OBO-XML document has held so far (history)
    cli,            \* a run of the command-line entry point of GOdata.py
    loader,         \* a call of parseGeneAssociations: the file and what is read
    closest,        \* a call of misctools.get_closest
    bfs             \* the generator object of the latest traverseBreadthFirst call

\* The variables of the GOspecs model, and those of the other operations.
coreVars == <<parentDict, canonid, slim, namespaceSets, args, inst, query, gen,
              handler, doc>>

others == <<cli, loader, closest, bfs>>

vars == <<parentDict, canonid, slim, namespaceSets, args, inst, query, gen,
          handler, doc, cli, loader, closest, bfs>>

-----------------------------------------------------------------------------
(* Bounds of the model. *)

\* Longest association list handed to a constructor.
MaxAssoc == 2
\* Longest association list of SpecLists.
MaxLongAssoc == 3
\* Longest list handed to childrenOf.
MaxQuery == 2
\* Longest parent list of a term of the ontology drawn in Init.
MaxParents == 2
\* the lines of an association file
MaxLines == 2
\* the largest coordinate of an element given to get_closest
MaxCoord == 2

-----------------------------------------------------------------------------
(* Generic helpers on Python values. *)

EmptyDict == [k \in {} |-> {}]

Range(s) == {s[i] : i \in 1..Len(s)}

\* dict.get(key, default)
Get(d, k, default) == IF k \in DOMAIN d THEN d[k] ELSE default

\* Sequences over S of length at most n.
SeqsUpTo(S, n) == UNION {[1..m -> S] : m \in 0..n}

NoDup(s) == \A i, j \in 1..Len(s) : i # j => s[i] # s[j]

\* list(set(...)): a list holding each element of the set once, in the
\* order the set iterates in (some fixed order of the implementation).
ListOfSet(S) == CHOOSE s \in [1..Cardinality(S) -> S] : Range(s) = S

-----------------------------------------------------------------------------
(* GOspecs: class data. *)

namespaces == <<"GO:0005575", "GO:0003674", "GO:0008150">>

NamespaceSet == Range(namespaces)

EmptyNamespaceSets == [ns \in NamespaceSet |-> {}]

-----------------------------------------------------------------------------
(* GOspecs.traverseDepthFirst: the whole sequence the generator yields.    *)
(* A term that is not a key of parentDict is yielded, and the lookup of    *)
(* its parents then raises KeyError (err).                                 *)

RECURSIVE traverseDepthFirst(_, _)
RECURSIVE DepthFirstParents(_, _, _)

\* Mutant of DepthFirstParents: only the first parent is followed.
DepthFirstFirstParent(pd, parents, acc) ==
    IF parents = <<>> \/ acc.err
    THEN acc
    ELSE LET r == traverseDepthFirst(pd, Head(parents))
         IN  [out |-> acc.out \o r.out, err |-> r.err]

DepthFirstParents(pd, parents, acc) ==
    IF parents = <<>> \/ acc.err
    THEN acc
    ELSE LET r == traverseDepthFirst(pd, Head(parents))
         IN  DepthFirstParents(pd, Tail(parents),
                               [out |-> acc.out \o r.out, err |-> r.err])

\* Mutant of traverseDepthFirst: a term that is no key is taken for a root.
DepthFirstMissingIsRoot(pd, GOterm) ==
    IF GOterm \notin DOMAIN pd
    THEN [out |-> <<GOterm>>, err |-> FALSE]
    ELSE DepthFirstParents(pd, pd[GOterm], [out |-> <<GOterm>>, err |-> FALSE])

traverseDepthFirst(pd, GOterm) ==
    IF GOterm \notin DOMAIN pd
    THEN [out |-> <<GOterm>>, err |-> TRUE]
    ELSE DepthFirstParents(pd, pd[GOterm], [out |-> <<GOterm>>, err |-> FALSE])

-----------------------------------------------------------------------------
(* GOspecs.traverseDepthFirst as the generator object it is: a stack of    *)
(* frames, one per nested call, each at its yield; i counts the parents    *)
(* the frame's for loop has taken.  Resume is what next() runs once a      *)
(* value has been handed out: the innermost frame goes on after its yield. *)

Frame(GOterm) == [GOterm |-> GOterm, i |-> 0]

\* Mutant of Resume: a nested call that is exhausted ends the traversal.
RECURSIVE ResumeEndsEarly(_, _)
ResumeEndsEarly(pd, stack) ==
    IF stack = <<>>
    THEN [stack |-> <<>>, status |-> "done", yielded |-> <<>>]
    ELSE LET top == stack[Len(stack)]
         IN  IF top.GOterm \notin DOMAIN pd
             THEN [stack |-> <<>>, status |-> "KeyError", yielded |-> <<>>]
             ELSE IF top.i < Len(pd[top.GOterm])
             THEN [stack |-> [stack EXCEPT ![Len(stack)].i = top.i + 1]
                                \o <<Frame(pd[top.GOterm][top.i + 1])>>,
                   status |-> "running",
                   yielded |-> <<pd[top.GOterm][top.i + 1]>>]
             ELSE [stack |-> <<>>, status |-> "done", yielded |-> <<>>]

RECURSIVE Resume(_, _)
Resume(pd, stack) ==
    IF stack = <<>>
    THEN \* the outermost frame has returned: StopIteration
         [stack |-> <<>>, status |-> "done", yielded |-> <<>>]
    ELSE LET top == stack[Len(stack)]
         IN  IF top.GOterm \notin DOMAIN pd
             THEN \* self.parentDict[GOterm] raises, through every frame
                  [stack |-> <<>>, status |-> "KeyError", yielded |-> <<>>]
             ELSE IF top.i < Len(pd[top.GOterm])
             THEN \* the next parent: a nested call, which yields the parent
                  [stack |-> [stack EXCEPT ![Len(stack)].i = top.i + 1]
                                \o <<Frame(pd[top.GOterm][top.i + 1])>>,
                   status |-> "running",
                   yielded |-> <<pd[top.GOterm][top.i + 1]>>]
             ELSE \* the frame returns; the calling frame's inner loop ends
                  Resume(pd, SubSeq(stack, 1, Len(stack) - 1))

\* next() on the generator object.
GeneratorNext(pd, g) ==
    IF g.status = "created"
    THEN [stack |-> <<Frame(g.GOterm)>>, status |-> "running",
          yielded |-> <<g.GOterm>>]
    ELSE Resume(pd, g.stack)

-----------------------------------------------------------------------------
(* parseOBOXML: the actions of OBOXMLHandler.endElement, by tag.  The text *)
(* of an element is its characters and whether white space trails them.    *)
(* The handler also fills names and OBOversion, which nothing else of the  *)
(* program modelled here reads; they are left out.                         *)

rstrip(data) == data.text

\* self.data == s
DataIs(data, s) == data.text = s /\ ~data.pad

DictSet(d, k, v) == [x \in DOMAIN d \cup {k} |-> IF x = k THEN v ELSE d[x]]

alt_id(cid, id, data) == DictSet(cid, rstrip(data), id)

\* Mutant of is_obsolete: parents already listed are kept.
is_obsoleteKeepsParents(pd, id) == DictSet(pd, id, Get(pd, id, <<>>))

is_obsolete(pd, id) == DictSet(pd, id, <<>>)

subset(slimlist, id, data) ==
    IF DataIs(data, "goslim_generic") THEN Append(slimlist, id) ELSE slimlist

is_a(pd, id, data) == DictSet(pd, id, Get(pd, id, <<>>) \o <<rstrip(data)>>)

type_(read_to, data) == IF DataIs(data, "part_of") THEN TRUE ELSE read_to

\* Mutant of relationship: the end of a relationship leaves read_to as it is.
relationshipKeepsReading(read_to) == read_to

\* if name == 'relationship': self.read_to = False
relationship(read_to) == FALSE

to(pd, id, read_to, data) == IF read_to THEN is_a(pd, id, data) ELSE pd

-----------------------------------------------------------------------------
(* GOspecs.__init__ *)

\* for GOterm in self.namespaces: self.parentDict[GOterm] = []
ResetNamespaces(pd) ==
    [t \in DOMAIN pd \cup NamespaceSet |->
        IF t \in NamespaceSet THEN <<>> ELSE pd[t]]

\* pair[0] = canonid.get(pair[0], pair[0])
Canonical(cid, GOterm) == Get(cid, GOterm, GOterm)

\* Mutant of CastAssociations: the term keys are left as given.
CastNothing(associations, cid) ==
    [i \in 1..Len(associations) |-> <<associations[i][1], associations[i][2]>>]

CastAssociations(associations, cid) ==
    [i \in 1..Len(associations) |->
        <<Canonical(cid, associations[i][1]), associations[i][2]>>]

\* Mutant of NotInTree: the first missing key found is the only one reported.
NotInTreeFirst(associations, pd) ==
    LET bad == {associations[i][1] : i \in 1..Len(associations)} \ DOMAIN pd
    IN  IF bad = {} THEN {} ELSE {CHOOSE t \in bad : TRUE}

\* set([GO for (GO,gen) in self.associations]).difference(parentDict)
NotInTree(associations, pd) ==
    {associations[i][1] : i \in 1..Len(associations)} \ DOMAIN pd

\* Mutant of AddGene: the gene set is assigned anew on every visit.
AddGeneOverwrite(specs, ancestor, gene) ==
    [t \in DOMAIN specs \cup {ancestor} |->
        IF t = ancestor THEN {gene} ELSE specs[t]]

\* try: self.specs[ancestor].add(gene) except KeyError: ... = set([gene])
AddGene(specs, ancestor, gene) ==
    IF ancestor \in DOMAIN specs
    THEN [specs EXCEPT ![ancestor] = @ \cup {gene}]
    ELSE [t \in DOMAIN specs \cup {ancestor} |->
            IF t = ancestor THEN {gene} ELSE specs[t]]

\* if ancestor in self.namespaces: self.namespaceSets[ancestor].add(GOterm)
AddNamespace(nsets, ancestor, GOterm) ==
    IF ancestor \in NamespaceSet
    THEN [nsets EXCEPT ![ancestor] = @ \cup {GOterm}]
    ELSE nsets

\* The body of the inner loop, over the ancestors the traversal yielded.
RECURSIVE VisitAncestors(_, _, _, _)
VisitAncestors(ancestors, GOterm, gene, st) ==
    IF ancestors = <<>>
    THEN st
    ELSE VisitAncestors(Tail(ancestors), GOterm, gene,
            [specs |-> AddGene(st.specs, Head(ancestors), gene),
             nsets |-> AddNamespace(st.nsets, Head(ancestors), GOterm),
             err   |-> st.err])

\* for (GOterm, gene) in self.associations: for ancestor in ...
\* A KeyError of the traversal leaves the loops with what was done so far.
RECURSIVE BuildSpecs(_, _, _)
BuildSpecs(associations, pd, st) ==
    IF associations = <<>> \/ st.err
    THEN st
    ELSE LET GOterm == Head(associations)[1]
             gene   == Head(associations)[2]
             trav   == traverseDepthFirst(pd, GOterm)
             done   == VisitAncestors(trav.out, GOterm, gene, st)
         IN  BuildSpecs(Tail(associations), pd, [done EXCEPT !.err = trav.err])

\* for GOterm in self.specs: self.specs[GOterm] = list(set(self.specs[GOterm]))
ListSetSpecs(specs) == [t \in DOMAIN specs |-> ListOfSet(specs[t])]

\* Mutant of FilterSlim: the namespaces are not taken out.
FilterSlimKeepNamespaces(slimlist, specs) ==
    ListOfSet(Range(slimlist) \cap DOMAIN specs)

\* list(set(slim).intersection(self.specs).difference(self.namespaces))
FilterSlim(slimlist, specs) ==
    ListOfSet((Range(slimlist) \cap DOMAIN specs) \ NamespaceSet)

\* The constructor as a whole: the instance's attributes (hasSpecs, hasSlim:
\* whether the attribute was assigned before the constructor ended), how it
\* ended, and parentDict and namespaceSets as it leaves them.
GOspecsInit(associations, pd, cid, slimlist, nsets) ==
    LET pd1   == ResetNamespaces(pd)
        cast  == CastAssociations(associations, cid)
        bad   == NotInTree(cast, pd1)
        built == BuildSpecs(cast, pd1,
                    [specs |-> EmptyDict, nsets |-> nsets, err |-> FALSE])
        specs == ListSetSpecs(built.specs)
    IN  IF bad # {}
        THEN [outcome |-> "GOException", exc |-> bad,
              associations |-> cast,
              hasSpecs |-> FALSE, specs |-> EmptyDict,
              hasSlim |-> FALSE, slim |-> <<>>,
              parentDict |-> pd1, namespaceSets |-> nsets]
        ELSE IF built.err
        THEN [outcome |-> "KeyError", exc |-> {},
              associations |-> cast,
              hasSpecs |-> TRUE, specs |-> built.specs,
              hasSlim |-> FALSE, slim |-> <<>>,
              parentDict |-> pd1, namespaceSets |-> built.nsets]
        ELSE [outcome |-> "ok", exc |-> {},
              associations |-> cast,
              hasSpecs |-> TRUE, specs |-> specs,
              hasSlim |-> TRUE, slim |-> FilterSlim(slimlist, specs),
              parentDict |-> pd1, namespaceSets |-> built.nsets]

-----------------------------------------------------------------------------
(* GOspecs.childrenOf and GOspecs.parentsIn.  An argument of childrenOf is *)
(* a record [isStr, val]: a single string, or a list of strings.           *)

\* Mutant of QuerySet: a single string is iterated like a list, which gives
\* the set of its characters, none of them a term.
QuerySetOfChars(GOlist) == IF GOlist.isStr THEN {} ELSE Range(GOlist.val)

\* GOlist = set([GOlist]) if type(GOlist) is str else set(GOlist)
QuerySet(GOlist) == IF GOlist.isStr THEN {GOlist.val} ELSE Range(GOlist.val)

\* The lookup self.parentDict[GOterm] is made for every key of specs.
childrenOf(specs, pd, GOlist) ==
    IF \E GOterm \in DOMAIN specs : GOterm \notin DOMAIN pd
    THEN [outcome |-> "KeyError", result |-> <<>>]
    ELSE [outcome |-> "ok",
          result  |-> ListOfSet({GOterm \in DOMAIN specs :
                                    QuerySet(GOlist) \cap Range(pd[GOterm]) # {}})]

\* The set of the traversal is built first (the traversal may raise
\* KeyError); then .intersect is looked up on it, and a set has no such
\* attribute.
parentsIn(pd, GOterm, termset) ==
    IF traverseDepthFirst(pd, GOterm).err
    THEN [outcome |-> "KeyError", result |-> <<>>]
    ELSE [outcome |-> "AttributeError", result |-> <<>>]

-----------------------------------------------------------------------------
(* The values the model draws its inputs from.                             *)

CC == "GO:0005575"   \* cellular_component
MF == "GO:0003674"   \* molecular_function
BP == "GO:0008150"   \* biological_process

Genes == {"gene1", "gene2"}

\* Parent lists: lists without repetition of at most MaxParents terms of S.
ParentLists(S) == {s \in SeqsUpTo(S, MaxParents) : NoDup(s)}

\* The terms a term of the drawn ontologies may list as a parent.  The terms
\* are ranked (GO:A below GO:B below the namespaces) and parents are drawn
\* from the ranks above, which makes every drawn ontology acyclic.  A term
\* may be listed as a parent without being a key.
Above(t) ==
    CASE t = "GO:A" -> {"GO:B", CC, MF}
      [] t = "GO:B" -> {CC, MF}
      [] OTHER      -> {}

\* The ontology may hold the namespace CC, and then gives it a parent.
OntologyDicts ==
    UNION {{pd \in [dom -> ParentLists({"GO:B", CC, MF})] :
                /\ \A t \in dom \ {CC} : Range(pd[t]) \subseteq Above(t)
                /\ CC \in dom => pd[CC] = <<MF>>} :
           dom \in SUBSET {"GO:A", "GO:B", CC}}

\* Alias dicts: GO:X is an alternate identifier of GO:A; GO:A, a term
\* itself, may be recorded as an alternate identifier of GO:B.
AliasDicts ==
    {cid \in UNION {[dom -> {"GO:A", "GO:B"}] : dom \in SUBSET {"GO:X", "GO:A"}} :
        /\ "GO:X" \in DOMAIN cid => cid["GO:X"] = "GO:A"
        /\ "GO:A" \in DOMAIN cid => cid["GO:A"] = "GO:B"}

\* The slim list of Spec: a namespace, two terms (one of them twice) and an
\* identifier that is no term of the ontology.
SlimList == <<CC, "GO:A", "GO:X", "GO:B", "GO:A">>

\* The pairs of the association lists: the term GO:A with either gene, the
\* term GO:B, the alternate identifier GO:X and the namespace CC with gene1.
AssocPairs == ({"GO:A"} \X Genes) \cup ({"GO:B", "GO:X", CC} \X {"gene1"})

AssociationLists == SeqsUpTo(AssocPairs, MaxAssoc)

\* SpecLists: the ontologies with both terms, GO:B right under CC, and the
\* alias GO:X of GO:A; longer association lists; several slim lists (the
\* constructor's default, the one of Spec, one naming another namespace).
SmallOntologies ==
    {pd \in OntologyDicts : DOMAIN pd = {"GO:A", "GO:B"} /\ pd["GO:B"] = <<CC>>}

SlimLists == {<<>>, SlimList, <<"GO:B", MF, "GO:B">>}

LongAssociationLists == SeqsUpTo(AssocPairs, MaxLongAssoc)

\* SpecQuery: the ontologies that hold GO:A and not CC, and GO:B right
\* under CC if at all; what childrenOf and parentsIn are asked.
QueryOntologies ==
    {pd \in OntologyDicts :
        /\ "GO:A" \in DOMAIN pd
        /\ CC \notin DOMAIN pd
        /\ "GO:B" \in DOMAIN pd => pd["GO:B"] = <<CC>>}

ChildrenOfArgs ==
    {[isStr |-> TRUE, val |-> t] : t \in {"GO:A", "GO:B", CC}}
    \cup {[isStr |-> FALSE, val |-> l] : l \in SeqsUpTo({"GO:B", CC}, MaxQuery)}

ParentsInTerms == {"GO:A", "GO:B", CC}

ParentsInSets == SUBSET {"GO:B", CC}

NoInstance ==
    [outcome |-> "none", exc |-> {}, associations |-> <<>>,
     hasSpecs |-> FALSE, specs |-> EmptyDict, hasSlim |-> FALSE, slim |-> <<>>]

NoArgs == [associations |-> <<>>]

NoQuery == [kind |-> "none"]

NoCall == [GOterm |-> "", out |-> <<>>]

NoRun == [pc |-> "none"]

NoLoad == [pc |-> "none"]

NoClosest == [pc |-> "none"]

NoBreadth == [status |-> "none"]

OthersIdle ==
    /\ cli = NoRun
    /\ loader = NoLoad
    /\ closest = NoClosest
    /\ bfs = NoBreadth

None == "None"

\* OBOXMLHandler.__init__
NewHandler == [id |-> None, read_to |-> FALSE]

NoDocument ==
    [phase |-> "none", inRel |-> FALSE, ids |-> {}, parents |-> {},
     obsolete |-> {}, late |-> {},
     rel |-> [type |-> "", to |-> ""],
     keep |-> FALSE, elements |-> [t \in {} |-> <<>>], swapped |-> {}]

\* SpecParse: the documents.  Term records GO:A and GO:B, in either order;
\* the parents a record names are above its term (Names).
Data(S) == {[text |-> t, pad |-> p] : t \in S, p \in BOOLEAN}

ParseTerms == {"GO:A", "GO:B"}

ParseTargets == {"GO:B", CC}

Names(id) == IF id = None THEN {} ELSE Above(id)

RelationshipTypes == {"part_of", "regulates"}

Subsets == {"goslim_generic", "goslim_plant"}

AltIds == {"GO:X"}

ParsedAssociationLists ==
    {<<>>, <<<<"GO:A", "gene1">>, <<"GO:B", "gene2">>>>}
        \cup {<<p>> : p \in {"GO:A", "GO:B", "GO:X"} \X {"gene1"}}

NoGenerator ==
    [GOterm |-> "", stack |-> <<>>, out |-> <<>>, status |-> "none",
     previous |-> NoCall]

\* SpecTraverse: the parentDict of an instance (the namespaces are keys and
\* have no parent) that holds GO:A, and the terms traversals start from.
TraverseOntologies ==
    {ResetNamespaces(pd) : pd \in {d \in OntologyDicts : "GO:A" \in DOMAIN d}}

TraverseTerms == {"GO:A", "GO:B", CC}

-----------------------------------------------------------------------------------------------------------------------------------------------------
(* Spec: one process and its ontology (parentDict, canonid, slim, as       *)
(* parseOBOXML returns them).  The process builds a GOspecs instance from  *)
(* an association list as buildGO does, drops it, builds another one, and  *)
(* so on.  namespaceSets is a class attribute: it outlives the instances.  *)

Init ==
    /\ parentDict \in OntologyDicts
    /\ canonid \in AliasDicts
    /\ slim = SlimList
    /\ namespaceSets = EmptyNamespaceSets
    /\ args = NoArgs
    /\ inst = NoInstance
    /\ query = NoQuery
    /\ gen = NoGenerator
    /\ handler = NewHandler
    /\ doc = NoDocument
    /\ OthersIdle

\* GOspecs(associations, parentDict, canonid, names, slim, ...)
Construct(associations) ==
    /\ inst = NoInstance
    /\ \E r \in {GOspecsInit(associations, parentDict, canonid, slim, namespaceSets)} :
        /\ args' = [associations |-> associations]
        /\ inst' = [outcome |-> r.outcome, exc |-> r.exc,
                    associations |-> r.associations,
                    hasSpecs |-> r.hasSpecs, specs |-> r.specs,
                    hasSlim |-> r.hasSlim, slim |-> r.slim]
        /\ parentDict' = r.parentDict
        /\ namespaceSets' = r.namespaceSets
        /\ query' = NoQuery
        /\ UNCHANGED <<canonid, slim, gen, handler, doc, others>>

\* The caller drops the instance (or the exception).  The instance's own
\* attributes go with it; the class attribute and the caller's parentDict stay.
Release ==
    /\ inst # NoInstance
    /\ inst' = NoInstance
    /\ args' = NoArgs
    /\ query' = NoQuery
    /\ UNCHANGED <<parentDict, canonid, slim, namespaceSets, gen, handler, doc,
                   others>>

Next ==
    \/ \E associations \in AssociationLists : Construct(associations)
    \/ Release

Spec == Init /\ [][Next]_vars

-----------------------------------------------------------------------------
(* SpecLists: the same process over a small ontology, with longer          *)
(* association lists and several slim lists.                               *)

InitLists ==
    /\ parentDict \in SmallOntologies
    /\ canonid = [k \in {"GO:X"} |-> "GO:A"]
    /\ slim \in SlimLists
    /\ namespaceSets = EmptyNamespaceSets
    /\ args = NoArgs
    /\ inst = NoInstance
    /\ query = NoQuery
    /\ gen = NoGenerator
    /\ handler = NewHandler
    /\ doc = NoDocument
    /\ OthersIdle

NextLists ==
    \/ \E associations \in LongAssociationLists : Construct(associations)
    \/ Release

SpecLists == InitLists /\ [][NextLists]_vars

-----------------------------------------------------------------------------
(* SpecQuery: a process that builds one instance and queries it.           *)

InitQuery ==
    /\ parentDict \in QueryOntologies
    /\ canonid = EmptyDict
    /\ slim = SlimList
    /\ namespaceSets = EmptyNamespaceSets
    /\ args = NoArgs
    /\ inst = NoInstance
    /\ query = NoQuery
    /\ gen = NoGenerator
    /\ handler = NewHandler
    /\ doc = NoDocument
    /\ OthersIdle

\* data.childrenOf(GOlist), on an instance the constructor returned
ChildrenOf(GOlist) ==
    /\ inst.outcome = "ok"
    /\ \E r \in {childrenOf(inst.specs, parentDict, GOlist)} :
          query' = [kind |-> "childrenOf", GOlist |-> GOlist,
                    outcome |-> r.outcome, result |-> r.result]
    /\ UNCHANGED <<parentDict, canonid, slim, namespaceSets, args, inst, gen,
                   handler, doc, others>>

\* data.parentsIn(GOterm, termset), on an instance the constructor returned
ParentsIn(GOterm, termset) ==
    /\ inst.outcome = "ok"
    /\ \E r \in {parentsIn(parentDict, GOterm, termset)} :
          query' = [kind |-> "parentsIn", GOterm |-> GOterm, termset |-> termset,
                    outcome |-> r.outcome, result |-> r.result]
    /\ UNCHANGED <<parentDict, canonid, slim, namespaceSets, args, inst, gen,
                   handler, doc, others>>

NextQuery ==
    \/ \E associations \in AssociationLists : Construct(associations)
    \/ \E GOlist \in ChildrenOfArgs : ChildrenOf(GOlist)
    \/ \E GOterm \in ParentsInTerms, termset \in ParentsInSets :
          ParentsIn(GOterm, termset)

SpecQuery == InitQuery /\ [][NextQuery]_vars

-----------------------------------------------------------------------------
(* SpecTraverse: traversals of the parentDict of an instance.  A call      *)
(* makes a generator object and runs nothing; each next() runs the         *)
(* generator to its next yield or to its end.  The consumer (a for loop,   *)
(* as in the constructor and in parentsIn) calls next() until the          *)
(* generator ends, which is the fairness of SpecTraverse.                  *)

InitTraverse ==
    /\ parentDict \in TraverseOntologies
    /\ canonid = EmptyDict
    /\ slim = SlimList
    /\ namespaceSets = EmptyNamespaceSets
    /\ args = NoArgs
    /\ inst = NoInstance
    /\ query = NoQuery
    /\ gen = NoGenerator
    /\ handler = NewHandler
    /\ doc = NoDocument
    /\ OthersIdle

\* self.traverseDepthFirst(GOterm): a new generator object.  What the
\* latest call yielded, if it ran to its end, is kept for comparison.
CallTraverse(GOterm) ==
    /\ gen.status \in {"none", "done", "KeyError"}
    /\ gen' = [GOterm |-> GOterm, stack |-> <<>>, out |-> <<>>,
               status |-> "created",
               previous |-> IF gen.status = "done"
                            THEN [GOterm |-> gen.GOterm, out |-> gen.out]
                            ELSE NoCall]
    /\ UNCHANGED <<parentDict, canonid, slim, namespaceSets, args, inst, query,
                   handler, doc, others>>

\* next(generator)
NextValue ==
    /\ gen.status \in {"created", "running"}
    /\ \E r \in {GeneratorNext(parentDict, gen)} :
          gen' = [gen EXCEPT !.stack = r.stack, !.status = r.status,
                             !.out = @ \o r.yielded]
    /\ UNCHANGED <<parentDict, canonid, slim, namespaceSets, args, inst, query,
                   handler, doc, others>>

NextTraverse ==
    \/ \E GOterm \in TraverseTerms : CallTraverse(GOterm)
    \/ NextValue

SpecTraverse == InitTraverse /\ [][NextTraverse]_vars /\ WF_vars(NextValue)

-----------------------------------------------------------------------------
(* What the claims speak of, stated without the traversal.                 *)

\* The terms reachable from the terms of S by parent edges, S included.
RECURSIVE UpwardClosure(_, _)
UpwardClosure(pd, S) ==
    LET T == S \cup UNION {Range(pd[t]) : t \in S \cap DOMAIN pd}
    IN  IF T = S THEN S ELSE UpwardClosure(pd, T)

AncestorsOrSelf(pd, t) == UpwardClosure(pd, {t})

\* The canonical key of an identifier: the key canonid gives it, or itself.
Resolve(t) == IF t \in DOMAIN canonid THEN canonid[t] ELSE t

\* The term keys of an association list, and the genes it gives to T or to
\* a term below T.
TermsOf(associations) == {associations[i][1] : i \in 1..Len(associations)}

GenesUnder(associations, pd, T) ==
    {associations[i][2] : i \in {j \in 1..Len(associations) :
                                    T \in AncestorsOrSelf(pd, associations[j][1])}}

Built == inst.outcome = "ok"

-----------------------------------------------------------------------------
\* C1 (closure correctness): whenever the constructor has completed, specs
\* has a key T exactly when some canonicalized association term has T as an
\* ancestor-or-self by parent edges, and specs[T] is a duplicate-free list
\* holding exactly the genes directly associated with such terms.
ClosureCorrect ==
    Built =>
        /\ DOMAIN inst.specs =
              UNION {AncestorsOrSelf(parentDict, t) : t \in TermsOf(inst.associations)}
        /\ \A T \in DOMAIN inst.specs :
              /\ NoDup(inst.specs[T])
              /\ Range(inst.specs[T]) = GenesUnder(inst.associations, parentDict, T)

\* The scenario of the specification, with CC, GO:A, GO:B for A, B, C.
ClosureScenario ==
    /\ Built
    /\ {"GO:A", "GO:B"} \subseteq DOMAIN parentDict
    /\ parentDict["GO:A"] = <<CC>> /\ parentDict["GO:B"] = <<CC>>
    /\ args.associations = <<<<"GO:A", "gene2">>, <<"GO:B", "gene1">>>>
    /\ canonid = EmptyDict
    /\ DOMAIN inst.specs = {CC, "GO:A", "GO:B"}
    /\ Range(inst.specs[CC]) = {"gene1", "gene2"}
    /\ Range(inst.specs["GO:A"]) = {"gene2"}
    /\ Range(inst.specs["GO:B"]) = {"gene1"}

-----------------------------------------------------------------------------
\* A step that is a constructor call.
IsConstruct == inst = NoInstance /\ inst' # NoInstance

\* The canonicalized term keys of the associations just given that are not
\* keys of the parent-edge mapping (which holds the three namespaces, as the
\* constructor inserts them first).
Offending ==
    {Resolve(t) : t \in TermsOf(args'.associations)} \ DOMAIN parentDict'

\* C2 (consistency check): a constructor call raises GOException if and only
\* if some association term key, after alias resolution, is not a key of the
\* parent-edge mapping; the exception carries exactly the set of those keys,
\* and then no specs, no slim and no change to namespaceSets was produced.
ConsistencyCheck ==
    [][IsConstruct =>
        /\ (inst'.outcome = "GOException") <=> (Offending # {})
        /\ inst'.outcome = "GOException" =>
              /\ inst'.exc = Offending
              /\ ~inst'.hasSpecs
              /\ ~inst'.hasSlim
              /\ namespaceSets' = namespaceSets]_vars

\* A GOException naming two keys, raised in a process whose earlier
\* instance left terms in namespaceSets.
ConsistencyRaised ==
    /\ inst.outcome = "GOException"
    /\ Cardinality(inst.exc) = 2
    /\ namespaceSets # EmptyNamespaceSets

-----------------------------------------------------------------------------
\* The association list with each alternate identifier replaced by its
\* canonical key.
Replaced(associations) ==
    [i \in 1..Len(associations) |->
        <<Resolve(associations[i][1]), associations[i][2]>>]

\* The constructor call just made gave what a call with the alternate
\* identifiers replaced would have given, from the same state.
SameAsReplaced ==
    \E r \in {GOspecsInit(Replaced(args'.associations), parentDict, canonid,
                          slim, namespaceSets)} :
        /\ inst'.outcome = r.outcome
        /\ inst'.exc = r.exc
        /\ inst'.specs = r.specs
        /\ inst'.slim = r.slim
        /\ namespaceSets' = r.namespaceSets

\* No canonical key of canonid is itself recorded as an alternate identifier.
FlatAliases == \A k \in DOMAIN canonid : canonid[k] \notin DOMAIN canonid

\* C3 as claimed (alias transparency for every canonid): a constructor call
\* gives the same outcome, specs, slim and namespaceSets as a call with each
\* alternate identifier replaced by its canonical key.
AliasTransparentAnyCanonid == [][IsConstruct => SameAsReplaced]_vars

\* C3 as amended: the same, for every canonid in which no canonical key is
\* itself an alternate identifier (the constructor resolves one step only).
AliasTransparent == [][IsConstruct /\ FlatAliases => SameAsReplaced]_vars

\* An instance built from an association that names GO:A by GO:X.
AliasUsed ==
    /\ Built
    /\ FlatAliases
    /\ "GO:X" \in TermsOf(args.associations)
    /\ "GO:X" \in DOMAIN canonid
    /\ "GO:A" \in DOMAIN inst.specs
    /\ "GO:X" \notin DOMAIN inst.specs

-----------------------------------------------------------------------------
\* C7 (namespace partition): whenever a constructor call has completed,
\* whatever calls came before it, namespaceSets holds for each namespace NS exactly the canonicalized term
\* keys of the latest instance's own associations from which NS is reachable
\* by parent edges.
NamespacePartition ==
    Built =>
        \A NS \in NamespaceSet :
            namespaceSets[NS] =
                {t \in TermsOf(inst.associations) : NS \in AncestorsOrSelf(parentDict, t)}

-----------------------------------------------------------------------------
\* specs as a term -> gene set mapping (the genes of each list).
GeneSets(i) ==
    IF i.outcome = "ok"
    THEN [t \in DOMAIN i.specs |-> Range(i.specs[t])]
    ELSE i.specs

Front(s) == SubSeq(s, 1, Len(s) - 1)
Last(s) == s[Len(s)]

\* C4 (idempotence on duplicate associations): a constructor call whose
\* association list ends with a pair that the list already holds gives the
\* specs (as term -> gene set) that a call without that last pair would have
\* given from the same state, and ends the same way.
DuplicateIdempotent ==
    [][/\ IsConstruct
       /\ Len(args'.associations) >= 2
       /\ Last(args'.associations) \in Range(Front(args'.associations))
       => \E r \in {GOspecsInit(Front(args'.associations), parentDict, canonid,
                                slim, namespaceSets)} :
             /\ inst'.outcome = r.outcome
             /\ GeneSets(inst') = GeneSets(r)]_vars

\* An instance built from two pairs that give GO:A two genes, followed by
\* the first pair again.
DuplicateGiven ==
    /\ Built
    /\ Len(args.associations) = 3
    /\ args.associations[3] = args.associations[1]
    /\ args.associations[1] = <<"GO:A", "gene2">>
    /\ args.associations[2] = <<"GO:A", "gene1">>
    /\ Range(inst.specs["GO:A"]) = {"gene1", "gene2"}

-----------------------------------------------------------------------------
\* C6 (slim filtering): whenever the constructor has completed, self.slim
\* holds no namespace, holds only keys of specs, and holds every term of the
\* supplied slim list that is a key of specs and no namespace.
SlimFiltered ==
    Built =>
        /\ Range(inst.slim) \cap NamespaceSet = {}
        /\ Range(inst.slim) \subseteq DOMAIN inst.specs
        /\ \A t \in Range(slim) :
              t \in DOMAIN inst.specs /\ t \notin NamespaceSet => t \in Range(inst.slim)

\* A slim list naming a namespace that is a key of specs, a term that is a
\* key of specs and a term that is not.
SlimCut ==
    /\ Built
    /\ CC \in Range(slim) /\ CC \in DOMAIN inst.specs
    /\ "GO:A" \in Range(inst.slim)
    /\ "GO:B" \in Range(slim) /\ "GO:B" \notin DOMAIN inst.specs

-----------------------------------------------------------------------------
\* C8 (children-of): childrenOf(S), S a list of terms or a single term,
\* returns without duplicates exactly the keys T of specs that have at least
\* one direct parent in S.
ChildrenOfCorrect ==
    query.kind = "childrenOf" =>
        LET S == IF query.GOlist.isStr THEN {query.GOlist.val}
                 ELSE Range(query.GOlist.val)
        IN  /\ query.outcome = "ok"
            /\ NoDup(query.result)
            /\ Range(query.result) =
                  {T \in DOMAIN inst.specs : \E p \in Range(parentDict[T]) : p \in S}

\* The scenario of the specification (CC, GO:A, GO:B for A, B, C), asked by
\* a single string.
ChildrenOfScenario ==
    /\ query.kind = "childrenOf"
    /\ query.GOlist = [isStr |-> TRUE, val |-> CC]
    /\ "GO:B" \in DOMAIN parentDict
    /\ parentDict["GO:A"] = <<CC>> /\ parentDict["GO:B"] = <<CC>>
    /\ DOMAIN inst.specs = {CC, "GO:A", "GO:B"}
    /\ Range(query.result) = {"GO:A", "GO:B"}

-----------------------------------------------------------------------------
\* C9 (parents-in): for a key T of parentDict, parentsIn(T, C) returns a
\* value, the members of C among T and its ancestors.
ParentsInCorrect ==
    query.kind = "parentsIn" /\ query.GOterm \in DOMAIN parentDict =>
        /\ query.outcome = "ok"
        /\ Range(query.result) =
              AncestorsOrSelf(parentDict, query.GOterm) \cap query.termset

-----------------------------------------------------------------------------
(* SpecParse: buildGO on an OBO-XML document.  parseOBOXML starts from     *)
(* empty parentDict, canonid and slim; the SAX parser calls endElement at  *)
(* the end of each element, in document order; then GOspecs is built from  *)
(* what the handler filled.  A record starts with its id (a term node has  *)
(* one id subnode); type and to are the sub-elements of a relationship.    *)

InitParse ==
    /\ parentDict = EmptyDict
    /\ canonid = EmptyDict
    /\ slim = <<>>
    /\ namespaceSets = EmptyNamespaceSets
    /\ args = NoArgs
    /\ inst = NoInstance
    /\ query = NoQuery
    /\ gen = NoGenerator
    /\ handler = NewHandler
    /\ doc = NoDocument
    /\ OthersIdle

InRecord == doc.phase = "parsing" /\ ~doc.inRel

InRelationship == doc.phase = "parsing" /\ doc.inRel

Untouched == UNCHANGED <<namespaceSets, args, inst, query, gen, others>>

\* endElement('id'): a new term record.
EndId(data) ==
    /\ doc.phase \in {"none", "parsing"}
    /\ ~doc.inRel
    /\ rstrip(data) \notin doc.ids
    /\ handler' = [handler EXCEPT !.id = rstrip(data)]
    /\ doc' = [doc EXCEPT !.phase = "parsing", !.ids = @ \cup {rstrip(data)},
                          !.elements = DictSet(@, rstrip(data), <<>>)]
    /\ UNCHANGED <<parentDict, canonid, slim>>
    /\ Untouched

\* endElement('alt_id')
EndAltId(data) ==
    /\ InRecord
    /\ canonid' = alt_id(canonid, handler.id, data)
    /\ UNCHANGED <<parentDict, slim, handler, doc>>
    /\ Untouched

\* endElement('is_obsolete')
EndIsObsolete ==
    /\ InRecord
    /\ handler.id \notin doc.obsolete
    /\ parentDict' = is_obsolete(parentDict, handler.id)
    /\ doc' = [doc EXCEPT !.obsolete = @ \cup {handler.id}]
    /\ UNCHANGED <<canonid, slim, handler>>
    /\ Untouched

\* endElement('subset'); a record names a subset once.
EndSubset(data) ==
    /\ InRecord
    /\ handler.id \notin Range(slim)
    /\ slim' = subset(slim, handler.id, data)
    /\ UNCHANGED <<parentDict, canonid, handler, doc>>
    /\ Untouched

\* The record holds an is_a or a relationship; if it has held is_obsolete,
\* that element is not the last of them.
ParentElement ==
    [doc EXCEPT !.parents = @ \cup {handler.id},
                !.late = IF handler.id \in doc.obsolete
                         THEN @ \cup {handler.id} ELSE @]

\* The parent elements the record has held so far, at most MaxParents:
\* its is_a elements and its relationships of type part_of that name a
\* term, in document order.  SpecRecords keeps this history (doc.keep), the
\* other specifications do not.
MoreParents == Len(doc.elements[handler.id]) < MaxParents

Held(kind, target) ==
    IF doc.keep
    THEN [doc.elements EXCEPT ![handler.id] =
             Append(@, [kind |-> kind, target |-> target])]
    ELSE doc.elements

\* endElement('is_a')
EndIsA(data) ==
    /\ InRecord
    /\ rstrip(data) \in Names(handler.id)
    /\ MoreParents
    /\ Len(Get(parentDict, handler.id, <<>>)) < MaxParents
    /\ parentDict' = is_a(parentDict, handler.id, data)
    /\ doc' = [ParentElement EXCEPT !.elements = Held("is_a", data.text)]
    /\ UNCHANGED <<canonid, slim, handler>>
    /\ Untouched

\* startElement('relationship'): the handler only empties self.data.
StartRelationship ==
    /\ InRecord
    /\ MoreParents
    /\ doc' = [ParentElement EXCEPT !.inRel = TRUE,
                                    !.rel = [type |-> "", to |-> ""]]
    /\ UNCHANGED <<parentDict, canonid, slim, handler>>
    /\ Untouched

\* endElement('type'); a relationship has one type, whose text is kept.
EndType(data) ==
    /\ InRelationship
    /\ doc.rel.type = ""
    /\ handler' = [handler EXCEPT !.read_to = type_(@, data)]
    /\ doc' = [doc EXCEPT !.rel.type = IF data.text = "part_of" /\ ~data.pad
                                       THEN "part_of" ELSE "other",
                          !.swapped = IF doc.keep /\ doc.rel.to # ""
                                      THEN @ \cup {handler.id} ELSE @]
    /\ UNCHANGED <<parentDict, canonid, slim>>
    /\ Untouched

\* endElement('to'); a relationship has one to.
EndTo(data) ==
    /\ InRelationship
    /\ doc.rel.to = ""
    /\ rstrip(data) \in Names(handler.id)
    /\ Len(Get(parentDict, handler.id, <<>>)) < MaxParents
    /\ parentDict' = to(parentDict, handler.id, handler.read_to, data)
    /\ doc' = [doc EXCEPT !.rel.to = data.text]
    /\ UNCHANGED <<canonid, slim, handler>>
    /\ Untouched

\* endElement('relationship')
EndRelationship ==
    /\ InRelationship
    /\ handler' = [handler EXCEPT !.read_to = relationship(@)]
    /\ doc' = [doc EXCEPT !.inRel = FALSE,
                          !.rel = [type |-> "", to |-> ""],
                          !.elements = IF doc.rel.type = "part_of" /\ doc.rel.to # ""
                                       THEN Held("part_of", doc.rel.to) ELSE @]
    /\ UNCHANGED <<parentDict, canonid, slim>>
    /\ Untouched

\* parser.parse returns at the end of the document.
EndDocument ==
    /\ InRecord
    /\ doc' = [doc EXCEPT !.phase = "parsed"]
    /\ UNCHANGED <<parentDict, canonid, slim, handler>>
    /\ Untouched

\* buildGO: GOspecs(associations, parentDict, canonid, slim) on the result.
BuildGO(associations) ==
    /\ doc.phase = "parsed"
    /\ Construct(associations)

NextParse ==
    \/ \E data \in Data(ParseTerms) : EndId(data)
    \/ \E data \in Data(AltIds) : EndAltId(data)
    \/ EndIsObsolete
    \/ \E data \in Data(Subsets) : EndSubset(data)
    \/ \E data \in Data(ParseTargets) : EndIsA(data)
    \/ StartRelationship
    \/ \E data \in Data(RelationshipTypes) : EndType(data)
    \/ \E data \in Data(ParseTargets) : EndTo(data)
    \/ EndRelationship
    \/ EndDocument
    \/ \E associations \in ParsedAssociationLists : BuildGO(associations)

SpecParse == InitParse /\ [][NextParse]_vars

(* SpecRecords: parseOBOXML on the id, is_obsolete, is_a and relationship  *)
(* elements of a document, with the history of the parent elements.       *)
InitRecords ==
    /\ parentDict = EmptyDict
    /\ canonid = EmptyDict
    /\ slim = <<>>
    /\ namespaceSets = EmptyNamespaceSets
    /\ args = NoArgs
    /\ inst = NoInstance
    /\ query = NoQuery
    /\ gen = NoGenerator
    /\ handler = NewHandler
    /\ doc = [NoDocument EXCEPT !.keep = TRUE]
    /\ OthersIdle

NextRecords ==
    \/ \E data \in Data(ParseTerms) : EndId(data)
    \/ EndIsObsolete
    \/ \E data \in Data(ParseTargets) : EndIsA(data)
    \/ StartRelationship
    \/ \E data \in Data(RelationshipTypes) : EndType(data)
    \/ \E data \in Data(ParseTargets) : EndTo(data)
    \/ EndRelationship
    \/ EndDocument

SpecRecords == InitRecords /\ [][NextRecords]_vars

-----------------------------------------------------------------------------
\* The records of S are processed and their terms have no parent; and once
\* GOspecs is built, a gene that the associations give to one term of S and
\* to no other term is in specs under that term and no other.
RecordDone(t) == t # handler.id \/ doc.phase = "parsed"

GeneOnlyOf(g, t) ==
    /\ \E i \in 1..Len(inst.associations) : inst.associations[i] = <<t, g>>
    /\ \A i \in 1..Len(inst.associations) :
          inst.associations[i][2] = g => inst.associations[i][1] = t

Isolated(S) ==
    /\ \A t \in S : RecordDone(t) =>
          t \in DOMAIN parentDict /\ parentDict[t] = <<>>
    /\ Built =>
          \A t \in S, g \in Genes : GeneOnlyOf(g, t) =>
              {U \in DOMAIN inst.specs : g \in Range(inst.specs[U])} = {t}

\* C5 (obsolete isolation), as stated: once a record that holds is_obsolete
\* is processed, its term has an empty parent list, in whatever order the
\* record's elements came, and a gene associated with that term alone is in
\* specs under that term only.
ObsoleteIsolatedAnyOrder == Isolated(doc.obsolete)

\* C5 (obsolete isolation), amended: the same for the records whose
\* is_obsolete comes after all their is_a and relationship elements.
ObsoleteIsolated == Isolated(doc.obsolete \ doc.late)

\* GO:A's record held parent elements and then is_obsolete; GO:B's record
\* named a parent; gene1 was associated with GO:A through its alt_id.
ObsoleteBuilt ==
    /\ Built
    /\ "GO:A" \in (doc.obsolete \cap doc.parents) \ doc.late
    /\ "GO:B" \in DOMAIN parentDict /\ parentDict["GO:B"] = <<CC>>
    /\ args.associations = <<<<"GO:X", "gene1">>>>
    /\ DOMAIN inst.specs = {"GO:A"}

-----------------------------------------------------------------------------
\* Every parent listed in pd is a key of pd.
ParentsAreKeys(pd) == \A t \in DOMAIN pd : Range(pd[t]) \subseteq DOMAIN pd

\* The sequence the claim describes: T, then for each parent of T in list
\* order the whole sequence of that parent.
RECURSIVE AncestorSequence(_, _)
RECURSIVE AncestorSequences(_, _)
AncestorSequences(pd, parents) ==
    IF parents = <<>> THEN <<>>
    ELSE AncestorSequence(pd, Head(parents)) \o AncestorSequences(pd, Tail(parents))
AncestorSequence(pd, T) == <<T>> \o AncestorSequences(pd, pd[T])

\* The number of parent-edge paths from T to U (a parent listed twice makes
\* two edges).
RECURSIVE Paths(_, _, _)
RECURSIVE PathsFrom(_, _, _)
PathsFrom(pd, parents, U) ==
    IF parents = <<>> THEN 0
    ELSE Paths(pd, Head(parents), U) + PathsFrom(pd, Tail(parents), U)
Paths(pd, T, U) == (IF T = U THEN 1 ELSE 0) + PathsFrom(pd, pd[T], U)

Occurrences(s, U) == Cardinality({i \in 1..Len(s) : s[i] = U})

IsPrefix(s, t) == Len(s) <= Len(t) /\ SubSeq(t, 1, Len(s)) = s

\* C10 (ancestors-of): in a parentDict whose listed parents are all keys, a
\* traversal from a key T never raises, what it has yielded is always a
\* prefix of the sequence "T, then the whole sequence of each parent in list
\* order", and it ends, having yielded that sequence, in which each term
\* occurs once per parent-edge path from T; a second call from T yields the
\* same sequence again.
AncestorsOf ==
    /\ [](ParentsAreKeys(parentDict) /\ gen.status # "none"
             /\ gen.GOterm \in DOMAIN parentDict =>
            /\ gen.status # "KeyError"
            /\ IsPrefix(gen.out, AncestorSequence(parentDict, gen.GOterm))
            /\ gen.status = "done" =>
                  /\ gen.out = AncestorSequence(parentDict, gen.GOterm)
                  /\ \A U \in DOMAIN parentDict :
                        Occurrences(gen.out, U) = Paths(parentDict, gen.GOterm, U)
                  /\ gen.previous.GOterm = gen.GOterm => gen.out = gen.previous.out)
    /\ (ParentsAreKeys(parentDict) /\ gen.status = "created"
             /\ gen.GOterm \in DOMAIN parentDict
          ~> gen.status = "done")

\* A second traversal from GO:A that has ended, GO:A reaching CC by two paths.
AncestorsTwice ==
    /\ ParentsAreKeys(parentDict)
    /\ gen.status = "done"
    /\ gen.GOterm = "GO:A"
    /\ gen.previous.GOterm = "GO:A"
    /\ Occurrences(gen.out, CC) = 2
    /\ gen.out[1] = "GO:A"

-----------------------------------------------------------------------------
(* SpecMain: a run of GOdata.py from the command line.  The command line   *)
(* and the two files are given at the start; parseGeneAssociations and     *)
(* parseOBOXML are taken whole here (what they read is a field of the      *)
(* file), their own models being SpecLoad and SpecParse.                   *)

\* if options.slim and options.subslim / if not options.namespace in (...):
\* the message sys.exit is called with, or "" when the run goes on.
\* Mutant of UsageError: the namespace is not looked at.
UsageErrorFlagsOnly(slimopt, subslimopt, namespace) ==
    IF slimopt /\ subslimopt THEN "specify either --slim or --subslim" ELSE ""

UsageError(slimopt, subslimopt, namespace) ==
    IF slimopt /\ subslimopt
    THEN "specify either --slim or --subslim"
    ELSE IF namespace \notin {None} \cup NamespaceSet
    THEN "namespace must be GO:0005575, GO:0003674 or GO:0008150"
    ELSE ""

\* Select what to dump: the keys, by --slim / --subslim, then by --namespace.
SelectKeys(i, pd, nsets, slimopt, subslimopt, namespace) ==
    LET base == IF slimopt THEN Range(i.slim)
                ELSE IF subslimopt
                THEN Range(childrenOf(i.specs, pd,
                              [isStr |-> FALSE, val |-> i.slim]).result)
                        \cup Range(i.slim)
                ELSE DOMAIN i.specs
    IN  IF namespace # None THEN base \cap nsets[namespace] ELSE base

Namespaces == {None, CC, MF, "GO:A"}

AssociationFiles ==
    {[readable |-> FALSE, associations |-> <<>>]} \cup
    {[readable |-> TRUE, associations |-> a] :
        a \in {<<>>, <<<<"GO:A", "gene1">>>>, <<<<"GO:X", "gene1">>>>,
               <<<<"GO:B", "gene1">>, <<"GO:A", "gene2">>>>}}

OBOFiles ==
    {[state |-> st, parentDict |-> EmptyDict, canonid |-> EmptyDict,
      slim |-> <<>>] : st \in {"unreadable", "malformed"}} \cup
    {[state |-> "parsed", parentDict |-> pd, canonid |-> EmptyDict,
      slim |-> <<"GO:B", "GO:A">>] :
        pd \in {[t \in {"GO:A", "GO:B"} |->
                    IF t = "GO:A" THEN <<"GO:B">> ELSE <<CC>>],
                [t \in {"GO:A"} |-> <<"GO:B">>]}}

InitMain ==
    /\ parentDict = EmptyDict
    /\ canonid = EmptyDict
    /\ slim = <<>>
    /\ namespaceSets = EmptyNamespaceSets
    /\ args = NoArgs
    /\ inst = NoInstance
    /\ query = NoQuery
    /\ gen = NoGenerator
    /\ handler = NewHandler
    /\ doc = NoDocument
    /\ \E slimopt, subslimopt \in BOOLEAN, namespace \in Namespaces,
          nargs \in {1, 2}, af \in AssociationFiles, of \in OBOFiles :
          cli = [pc |-> "options", slim |-> slimopt, subslim |-> subslimopt,
                 namespace |-> namespace, nargs |-> nargs,
                 association_file |-> af, OBOXML_file |-> of,
                 opens |-> <<>>, associations |-> <<>>, specs |-> EmptyDict,
                 stdout |-> <<>>, exit |-> ""]
    /\ loader = NoLoad
    /\ closest = NoClosest
    /\ bfs = NoBreadth

Exit(c, how) == [c EXCEPT !.pc = "exit", !.exit = how]

MainFrame == UNCHANGED <<query, gen, handler, doc, loader, closest, bfs>>

\* parser.parse_args() and the two checks of the options.
MainOptions ==
    /\ cli.pc = "options"
    /\ cli' = IF UsageError(cli.slim, cli.subslim, cli.namespace) # ""
              THEN Exit(cli, "usage")
              ELSE [cli EXCEPT !.pc = "parseGeneAssociations"]
    /\ UNCHANGED <<parentDict, canonid, slim, namespaceSets, args, inst>>
    /\ MainFrame

\* buildGO(args[0], args[1]): the arguments, then parseGeneAssociations.
MainAssociations ==
    /\ cli.pc = "parseGeneAssociations"
    /\ cli' = IF cli.nargs < 2
              THEN Exit(cli, "IndexError")
              ELSE IF ~cli.association_file.readable
              THEN Exit([cli EXCEPT !.opens = Append(@, "association_file")],
                        "IOError")
              ELSE [cli EXCEPT !.opens = Append(@, "association_file"),
                               !.associations = cli.association_file.associations,
                               !.pc = "parseOBOXML"]
    /\ UNCHANGED <<parentDict, canonid, slim, namespaceSets, args, inst>>
    /\ MainFrame

\* parseOBOXML(OBOXML_fname); what the handler filled before a failure is
\* lost with the call.
MainOBO ==
    /\ cli.pc = "parseOBOXML"
    /\ \E c \in {[cli EXCEPT !.opens = Append(@, "OBOXML_file")]},
          f \in {cli.OBOXML_file} :
          IF f.state = "parsed"
          THEN /\ cli' = [c EXCEPT !.pc = "GOspecs"]
               /\ parentDict' = f.parentDict
               /\ canonid' = f.canonid
               /\ slim' = f.slim
          ELSE /\ cli' = Exit(c, IF f.state = "unreadable" THEN "IOError"
                                 ELSE "SAXParseException")
               /\ UNCHANGED <<parentDict, canonid, slim>>
    /\ UNCHANGED <<namespaceSets, args, inst>>
    /\ MainFrame

\* GOspecs(**kwargs)
MainGOspecs ==
    /\ cli.pc = "GOspecs"
    /\ \E r \in {GOspecsInit(cli.associations, parentDict, canonid, slim,
                             namespaceSets)} :
        /\ args' = [associations |-> cli.associations]
        /\ inst' = [outcome |-> r.outcome, exc |-> r.exc,
                    associations |-> r.associations,
                    hasSpecs |-> r.hasSpecs, specs |-> r.specs,
                    hasSlim |-> r.hasSlim, slim |-> r.slim]
        /\ parentDict' = r.parentDict
        /\ namespaceSets' = r.namespaceSets
        /\ cli' = IF r.outcome = "ok" THEN [cli EXCEPT !.pc = "select"]
                  ELSE Exit(cli, r.outcome)
    /\ UNCHANGED <<canonid, slim>>
    /\ MainFrame

\* Select what to dump.
MainSelect ==
    /\ cli.pc = "select"
    /\ \E keys \in {SelectKeys(inst, parentDict, namespaceSets, cli.slim,
                               cli.subslim, cli.namespace)} :
          cli' = [cli EXCEPT !.specs = [k \in keys |-> inst.specs[k]],
                             !.pc = "vheader"]
    /\ UNCHANGED <<parentDict, canonid, slim, namespaceSets, args, inst>>
    /\ MainFrame

\* sys.stdout.write(vheader(*sys.argv)): vheader is computed first, and may
\* raise (os.getlogin, reading the script).
MainHeader(raises) ==
    /\ cli.pc = "vheader"
    /\ cli' = IF raises THEN Exit(cli, "OSError")
              ELSE [cli EXCEPT !.stdout = Append(@, "vheader"), !.pc = "version"]
    /\ UNCHANGED <<parentDict, canonid, slim, namespaceSets, args, inst>>
    /\ MainFrame

\* for info in data.version: sys.stdout.write(...)
MainVersion ==
    /\ cli.pc = "version"
    /\ cli' = [cli EXCEPT !.stdout = Append(@, "version"), !.pc = "dump"]
    /\ UNCHANGED <<parentDict, canonid, slim, namespaceSets, args, inst>>
    /\ MainFrame

\* json.dump(specs, sys.stdout, indent=4)
MainDump ==
    /\ cli.pc = "dump"
    /\ cli' = Exit([cli EXCEPT !.stdout = Append(@, "specs")], "done")
    /\ UNCHANGED <<parentDict, canonid, slim, namespaceSets, args, inst>>
    /\ MainFrame

NextMain ==
    \/ MainOptions
    \/ MainAssociations
    \/ MainOBO
    \/ MainGOspecs
    \/ MainSelect
    \/ \E raises \in BOOLEAN : MainHeader(raises)
    \/ MainVersion
    \/ MainDump

SpecMain == InitMain /\ [][NextMain]_vars

\* The options of the run are in conflict, or its namespace is not one of
\* the three keys.
BadOptions ==
    \/ cli.slim /\ cli.subslim
    \/ cli.namespace \notin {None} \cup NamespaceSet

\* C11 (fail-fast ordering): a run whose options are in conflict or whose
\* namespace is not a namespace key never opens a file, and it ends with the
\* usage error; a run that has ended with a usage error, a GOException or a
\* parse failure (unreadable or malformed input) has written nothing to the
\* standard output.
FailFast ==
    /\ cli.pc # "none" /\ BadOptions =>
          /\ cli.opens = <<>>
          /\ cli.pc \in {"options", "exit"}
          /\ cli.pc = "exit" => cli.exit = "usage"
    /\ cli.pc = "exit"
          /\ cli.exit \in {"usage", "GOException", "SAXParseException", "IOError"}
          => cli.stdout = <<>>

\* A run with a namespace that is no namespace key, on two readable files
\* which agree, has ended with the usage error.
UsageExit ==
    /\ cli.pc = "exit"
    /\ cli.exit = "usage"
    /\ cli.namespace = "GO:A"
    /\ ~(cli.slim /\ cli.subslim)
    /\ cli.nargs = 2
    /\ cli.association_file.associations = <<<<"GO:A", "gene1">>>>
    /\ cli.OBOXML_file.state = "parsed"

-----------------------------------------------------------------------------
(* parseGeneAssociations and vskip.  A line is the sequence of its         *)
(* tab-separated columns, a column a sequence of pieces of text ("!", "#", *)
(* "__", "NOT", a name, the newline that ends the line); the text of the   *)
(* line is its pieces in order with a tab between columns.                 *)

\* line.startswith(c), c a single character
startswith(line, c) == line[1] # <<>> /\ line[1][1] = c

\* line.split('\t')
split(line) == line

\* gene[:2] == '__'
MarkedGene(gene) == gene # <<>> /\ gene[1] = "__"

\* re.search('NOT', line)
SearchNOT(line) ==
    \E i \in 1..Len(line) : \E j \in 1..Len(line[i]) : line[i][j] = "NOT"

\* Mutant of Skipped: 'NOT' is not looked for.
SkippedMarkedOnly(line, gene) == MarkedGene(gene)

\* if gene[:2] == '__' or re.search('NOT', line): continue
Skipped(line, gene) == MarkedGene(gene) \/ SearchNOT(line)

\* line[1:].rstrip(): without the first character, the final white space
\* (newline, tabs of empty last columns) removed.
RECURSIVE rstripLine(_)
rstripLine(line) ==
    IF line = <<>> THEN <<>>
    ELSE LET last == line[Len(line)]
             text == SelectSeq(last, LAMBDA a : a # "\n")
         IN  IF text = <<>> THEN rstripLine(SubSeq(line, 1, Len(line) - 1))
             ELSE [line EXCEPT ![Len(line)] = text]

VersionLine(line) == rstripLine([line EXCEPT ![1] = Tail(@)])

\* One turn of "for line in vskip(open(filename))": vskip passes over the
\* lines that start with its comment character '#'; the body of the loop
\* handles the others.  columns is (2, 5).
LoadLine(st, line) ==
    IF startswith(line, "#")
    THEN st
    ELSE IF startswith(line, "!")
    THEN [st EXCEPT !.assoVersion = Append(@, VersionLine(line))]
    ELSE LET items == split(line)
         IN  IF Len(items) < 2
             THEN [st EXCEPT !.pc = "IndexError"]
             ELSE IF Skipped(line, items[2])
             THEN st
             ELSE IF Len(items) < 5
             THEN [st EXCEPT !.pc = "IndexError"]
             ELSE [st EXCEPT !.pairlist = Append(@, <<items[5], items[2]>>)]

\* The lines drawn: six columns cut to ncols, the newline at the end.
FullLine(first, gene, qualifier, term) ==
    <<first, gene, <<"symbol">>, qualifier, term, <<"ref">>>>

CutLine(line, ncols) ==
    [i \in 1..ncols |-> IF i = ncols THEN line[i] \o <<"\n">> ELSE line[i]]

Lines ==
    {CutLine(FullLine(first, gene, qualifier, term), ncols) :
        first \in {<<"FB">>, <<"!", "version">>, <<"#", "call">>},
        gene \in {<<"gene1">>, <<"__", "gene1", "__">>},
        qualifier \in {<<>>, <<"NOT">>},
        term \in {<<"GO:A">>, <<"GO:B">>},
        ncols \in {1, 4, 5, 6}}

(* SpecLoad: parseGeneAssociations(filename) on a file of at most MaxLines *)
(* lines; the file gives its lines one by one.                             *)
InitLoad ==
    /\ parentDict = EmptyDict
    /\ canonid = EmptyDict
    /\ slim = <<>>
    /\ namespaceSets = EmptyNamespaceSets
    /\ args = NoArgs
    /\ inst = NoInstance
    /\ query = NoQuery
    /\ gen = NoGenerator
    /\ handler = NewHandler
    /\ doc = NoDocument
    /\ cli = NoRun
    /\ loader = [pc |-> "reading", n |-> 0, line |-> <<>>,
                 assoVersion |-> <<<<<<"-- associations version information --">>>>>>,
                 pairlist |-> <<>>]
    /\ closest = NoClosest
    /\ bfs = NoBreadth

NextLine(line) ==
    /\ loader.pc = "reading"
    /\ loader.n < MaxLines
    /\ loader' = [LoadLine(loader, line) EXCEPT !.n = loader.n + 1,
                                               !.line = line]
    /\ UNCHANGED <<coreVars, cli, closest, bfs>>

\* The end of the file: the function returns pairlist and assoVersion.
LoadReturn ==
    /\ loader.pc = "reading"
    /\ loader' = [loader EXCEPT !.pc = "returned"]
    /\ UNCHANGED <<coreVars, cli, closest, bfs>>

NextLoad ==
    \/ \E line \in Lines : NextLine(line)
    \/ LoadReturn

SpecLoad == InitLoad /\ [][NextLoad]_vars

-----------------------------------------------------------------------------
\* What the claim says of a line: the text of column i (the newline is no
\* part of a column; a column the line lacks has no text), the gene flanked
\* by the double-underscore marker, the text holding 'NOT'.
ColumnText(line, i) ==
    IF i \in 1..Len(line) THEN SelectSeq(line[i], LAMBDA a : a # "\n") ELSE <<>>

Flanked(gene) ==
    Len(gene) >= 2 /\ gene[1] = "__" /\ gene[Len(gene)] = "__"

HoldsNOT(line) ==
    \E i \in 1..Len(line) : "NOT" \in Range(line[i])

BeginsWith(line, c) == ColumnText(line, 1) # <<>> /\ ColumnText(line, 1)[1] = c

PairsOf(line) ==
    IF \/ BeginsWith(line, "!")
       \/ Flanked(ColumnText(line, 2))
       \/ HoldsNOT(line)
    THEN <<>>
    ELSE <<<<ColumnText(line, 5), ColumnText(line, 2)>>>>

\* The step that reads one line of the file.
LineRead == loader.pc = "reading" /\ loader'.pc # "returned"

LineLoaded(pairs) ==
    /\ loader'.pc = "reading"
    /\ loader'.pairlist = loader.pairlist \o pairs
    /\ IF BeginsWith(loader'.line, "!")
       THEN Len(loader'.assoVersion) = Len(loader.assoVersion) + 1
       ELSE loader'.assoVersion = loader.assoVersion

SixColumns(line) ==
    BeginsWith(line, "!") \/ BeginsWith(line, "#") \/ Len(line) >= 6

-----------------------------------------------------------------------------
\* The targets of the parent elements of t's record: of one kind, and all
\* of them in document order.
TargetsOf(t, kind) ==
    LET es == SelectSeq(doc.elements[t], LAMBDA e : e.kind = kind)
    IN  [i \in 1..Len(es) |-> es[i].target]

TargetsInOrder(t) ==
    [i \in 1..Len(doc.elements[t]) |-> doc.elements[t][i].target]

\* C13 (parent list built by the parser), as stated: once the record of a
\* term that is not obsolete is processed, parentDict[term] is the list of
\* its is_a targets followed by the targets of its relationships of type
\* part_of, whatever the order of its elements, and nothing else.
ParentListIsAFirst ==
    \A t \in doc.ids \ doc.obsolete : RecordDone(t) =>
        /\ t \in DOMAIN parentDict
        /\ parentDict[t] = TargetsOf(t, "is_a") \o TargetsOf(t, "part_of")

\* C13, amended: once the record of a term that is not obsolete, whose
\* relationships all hold their type before their to, is processed, the
\* term is a key of parentDict exactly when the record named a parent by
\* is_a or by a relationship of type part_of, and its list is then those
\* targets in document order, and nothing else.
ParentListInOrder ==
    \A t \in doc.ids \ (doc.obsolete \cup doc.swapped) : RecordDone(t) =>
        /\ Get(parentDict, t, <<>>) = TargetsInOrder(t)
        /\ t \in DOMAIN parentDict <=> TargetsInOrder(t) # <<>>

\* GO:A's record held a part_of relationship to GO:B, then is_a CC; the
\* document went on with GO:B's record.
ParentListMixed ==
    /\ handler.id = "GO:B"
    /\ "GO:A" \in doc.ids \ (doc.obsolete \cup doc.swapped)
    /\ doc.elements["GO:A"] = <<[kind |-> "part_of", target |-> "GO:B"],
                                [kind |-> "is_a", target |-> CC]>>
    /\ doc.phase = "parsed"

-----------------------------------------------------------------------------
(* misctools.get_closest.  The keys are strings; the elements are tuples   *)
(* of numbers (a sequence name is the number of the sequence).  A distance *)
(* is a number or float('inf').                                            *)

Inf == [inf |-> TRUE, d |-> 0]

Finite(d) == [inf |-> FALSE, d |-> d]

\* d1 < d2
DistLess(d1, d2) == ~d1.inf /\ (d2.inf \/ d1.d < d2.d)

Abs(x) == IF x < 0 THEN -x ELSE x

Min(x, y) == IF x < y THEN x ELSE y

\* The first character of a key.
FirstChar(key) ==
    CASE key \in {"FBgn1", "FBgn2"} -> "F"
      [] key \in {"r5a", "r5b"} -> "r"

\* The default dist of get_closest, as it is called: on two keys, or on a
\* key and None.  zip pairs the characters of two strings, a - b raises
\* TypeError on them, and so does zip on None; the TypeError is caught.
DefaultDistCalled(x, y) == [raises |-> FALSE, dist |-> Inf]

\* targgenes.dist, as it is called by get_closest: TSS and mapinfo are two
\* keys, or a key and None.  None[0] raises TypeError; two keys with the
\* same first character go on to the difference of two characters, which
\* raises TypeError.
TargDistCalled(TSS, mapinfo) ==
    IF mapinfo = None THEN [raises |-> TRUE, dist |-> Inf]
    ELSE IF FirstChar(TSS) # FirstChar(mapinfo)
    THEN [raises |-> FALSE, dist |-> Inf]
    ELSE [raises |-> TRUE, dist |-> Inf]

DistCalled(dist, x, y) ==
    IF dist = "default" THEN DefaultDistCalled(x, y) ELSE TargDistCalled(x, y)

\* The order of tuples: x < y.
RECURSIVE TupleLess(_, _)
TupleLess(x, y) ==
    IF y = <<>> THEN FALSE
    ELSE IF x = <<>> THEN TRUE
    ELSE IF Head(x) # Head(y) THEN Head(x) < Head(y)
    ELSE TupleLess(Tail(x), Tail(y))

\* sorted(merge, key = merge.get, reverse = ...): the keys by value; the
\* sort is stable, so keys of equal value stay in the order in which the
\* dict gives them (iteration), reversed or not.  Each key is put after
\* the keys that do not come after it.
Before(merge, reverse, k1, k2) ==
    IF reverse THEN TupleLess(merge[k2], merge[k1])
    ELSE TupleLess(merge[k1], merge[k2])

RECURSIVE InsertKey(_, _, _, _)
InsertKey(s, merge, reverse, key) ==
    IF s = <<>> THEN <<key>>
    ELSE IF Before(merge, reverse, key, Head(s)) THEN <<key>> \o s
    ELSE <<Head(s)>> \o InsertKey(Tail(s), merge, reverse, key)

RECURSIVE SortInto(_, _, _, _)
SortInto(s, merge, reverse, keys) ==
    IF keys = <<>> THEN s
    ELSE SortInto(InsertKey(s, merge, reverse, Head(keys)), merge, reverse,
                  Tail(keys))

sorted(merge, iteration, reverse) == SortInto(<<>>, merge, reverse, iteration)

\* Step 2: the forward pass.
RECURSIVE ForwardPass(_, _, _)
ForwardPass(keys, dict_a, st) ==
    IF keys = <<>> THEN st
    ELSE LET key == Head(keys)
         IN  ForwardPass(Tail(keys), dict_a,
                IF key \in DOMAIN dict_a
                THEN [st EXCEPT !.closest = DictSet(@, key, st.left)]
                ELSE [st EXCEPT !.left = key])

\* dist(key, right) < dist(key, closest[key])
Nearer(dist, key, right, current) ==
    [raises |-> DistCalled(dist, key, right).raises
                   \/ DistCalled(dist, key, current).raises,
     nearer |-> DistLess(DistCalled(dist, key, right).dist,
                         DistCalled(dist, key, current).dist)]

\* Step 3: the backward pass.
RECURSIVE BackwardPass(_, _, _, _)
BackwardPass(keys, dict_a, dist, st) ==
    IF keys = <<>> \/ st.raises THEN st
    ELSE LET key == Head(keys)
         IN  BackwardPass(Tail(keys), dict_a, dist,
                IF key \in DOMAIN dict_a
                THEN LET n == Nearer(dist, key, st.right, st.closest[key])
                     IN  IF n.raises THEN [st EXCEPT !.raises = TRUE]
                         ELSE IF n.nearer
                         THEN [st EXCEPT !.closest = DictSet(@, key, st.right)]
                         ELSE st
                ELSE [st EXCEPT !.right = key])

get_closest(dict_a, dict_b, dist, iteration) ==
    IF DOMAIN dict_a \cap DOMAIN dict_b # {}
    THEN [outcome |-> "KeyError", closest |-> EmptyDict]
    ELSE LET merge == [k \in DOMAIN dict_a \cup DOMAIN dict_b |->
                          IF k \in DOMAIN dict_b THEN dict_b[k] ELSE dict_a[k]]
             fwd == ForwardPass(sorted(merge, iteration, FALSE), dict_a,
                                [closest |-> EmptyDict, left |-> None])
             bwd == BackwardPass(sorted(merge, iteration, TRUE), dict_a, dist,
                                 [closest |-> fwd.closest, right |-> fwd.left,
                                  raises |-> FALSE])
         IN  IF bwd.raises THEN [outcome |-> "TypeError", closest |-> EmptyDict]
             ELSE [outcome |-> "ok", closest |-> bwd.closest]

\* The calls drawn.  With the default dist the elements are points <<x>>;
\* with targgenes.dist dict_a holds (seqname, position) and dict_b
\* (seqname, start, end), as in targgenes.JSONtargets.
KeysA == {"FBgn1", "r5a"}

KeysB == {"r5a", "r5b"}

Dicts(K, V) == UNION {[D -> V] : D \in SUBSET K}

Coords == 0..MaxCoord

Seqnames == {1, 2}

ElementsA(dist) ==
    IF dist = "default" THEN {<<x>> : x \in Coords}
    ELSE Seqnames \X Coords

ElementsB(dist) ==
    IF dist = "default" THEN {<<x>> : x \in Coords}
    ELSE {<<q, x, x + w>> : q \in Seqnames, x \in Coords, w \in {0, 1}}

Iterations(K) == {s \in [1..Cardinality(K) -> K] : Range(s) = K}

InitClosest ==
    /\ parentDict = EmptyDict
    /\ canonid = EmptyDict
    /\ slim = <<>>
    /\ namespaceSets = EmptyNamespaceSets
    /\ args = NoArgs
    /\ inst = NoInstance
    /\ query = NoQuery
    /\ gen = NoGenerator
    /\ handler = NewHandler
    /\ doc = NoDocument
    /\ OthersIdle

GetClosest(dict_a, dict_b, dist, iteration) ==
    /\ closest.pc = "none"
    /\ \E r \in {get_closest(dict_a, dict_b, dist, iteration)} :
          closest' = [pc |-> "returned", dict_a |-> dict_a, dict_b |-> dict_b,
                      dist |-> dist, outcome |-> r.outcome,
                      closest |-> r.closest]
    /\ UNCHANGED <<coreVars, cli, loader, bfs>>

\* One call is looked at; the arguments are drawn when it is made.
NextClosest ==
    /\ closest.pc = "none"
    /\ \E dist \in {"default", "targgenes"} :
        \E dict_a \in Dicts(KeysA, ElementsA(dist)),
           dict_b \in Dicts(KeysB, ElementsB(dist)) :
            \E iteration \in Iterations(DOMAIN dict_a \cup DOMAIN dict_b) :
                GetClosest(dict_a, dict_b, dist, iteration)

SpecClosest == InitClosest /\ [][NextClosest]_vars

-----------------------------------------------------------------------------
\* The distances the claim speaks of, between two elements: the infinity
\* norm of the coordinate differences, and targgenes.dist.
RECURSIVE InfinityNorm(_, _)
InfinityNorm(x, y) ==
    IF x = <<>> \/ y = <<>> THEN 0
    ELSE LET d == Abs(Head(x) - Head(y))
             m == InfinityNorm(Tail(x), Tail(y))
         IN  IF d > m THEN d ELSE m

TargDist(TSS, mapinfo) ==
    IF TSS[1] # mapinfo[1] THEN Inf
    ELSE Finite(Min(Abs(TSS[2] - mapinfo[2]), Abs(TSS[2] - mapinfo[3])))

ElementDist(dist, x, y) ==
    IF dist = "default" THEN Finite(InfinityNorm(x, y)) ELSE TargDist(x, y)

\* C14 (get_closest): a call on dicts whose keys overlap raises KeyError; a
\* call on disjoint keys and a dict_b that is not empty returns a dict with
\* the keys of dict_a, each mapped to a key of dict_b whose element is at
\* the least distance from the element of the key among the elements of
\* dict_b.
ClosestIsNearest ==
    closest.pc = "returned" =>
        IF DOMAIN closest.dict_a \cap DOMAIN closest.dict_b # {}
        THEN closest.outcome = "KeyError"
        ELSE DOMAIN closest.dict_b # {} =>
            /\ closest.outcome = "ok"
            /\ DOMAIN closest.closest = DOMAIN closest.dict_a
            /\ \A k \in DOMAIN closest.dict_a :
                /\ closest.closest[k] \in DOMAIN closest.dict_b
                /\ \A j \in DOMAIN closest.dict_b :
                     ~DistLess(
                        ElementDist(closest.dist, closest.dict_a[k],
                                    closest.dict_b[j]),
                        ElementDist(closest.dist, closest.dict_a[k],
                                    closest.dict_b[closest.closest[k]]))

-----------------------------------------------------------------------------
(* GOspecs.traverseBreadthFirst as the generator objects it makes: frame k *)
(* iterates over frame k + 1, a traversal from the same term, made when    *)
(* frame k first asks it for a node.  A frame is at its first yield        *)
(* ("first") or at a yield inside "for parent in self.parentDict[node]",   *)
(* i parents of node taken; last is written when the frame goes on.        *)

RECURSIVE BreadthResume(_, _, _, _)

\* Frame k has asked frame k + 1 for a node and r is what came.
BreadthFetched(pd, GOterm, k, last, r) ==
    IF r.status = "KeyError"
    THEN r
    ELSE IF r.status = "done"
    THEN \* the for loop over the inner traversal ends, and the frame with it
         [frames |-> SubSeq(r.frames, 1, k - 1), yielded |-> <<>>,
          status |-> "done"]
    ELSE IF r.yielded[1] \notin DOMAIN pd
    THEN [frames |-> <<>>, yielded |-> <<>>, status |-> "KeyError"]
    ELSE BreadthResume(pd, GOterm,
            [r.frames EXCEPT ![k] = [pc |-> "parents", node |-> r.yielded[1],
                                     i |-> 0, last |-> last]],
            k)

\* next() on frame k.
BreadthResume(pd, GOterm, frames, k) ==
    IF k > Len(frames)
    THEN \* a new generator object: yield GOterm; last = GOterm
         [frames |-> Append(frames, [pc |-> "first", node |-> GOterm, i |-> 0,
                                     last |-> GOterm]),
          yielded |-> <<GOterm>>, status |-> "running"]
    ELSE LET f == frames[k]
         IN  IF f.pc = "parents" /\ f.i < Len(pd[f.node])
             THEN \* yield parent; last = parent
                  [frames |-> [frames EXCEPT ![k].i = f.i + 1,
                                             ![k].last = pd[f.node][f.i + 1]],
                   yielded |-> <<pd[f.node][f.i + 1]>>, status |-> "running"]
             ELSE IF f.pc = "parents" /\ f.last = f.node
             THEN \* if last == node: return
                  [frames |-> SubSeq(frames, 1, k - 1), yielded |-> <<>>,
                   status |-> "done"]
             ELSE \* the next node of "for node in self.traverseBreadthFirst"
                  BreadthFetched(pd, GOterm, k, f.last,
                     BreadthResume(pd, GOterm, frames, k + 1))

\* SpecBreadth: traversals of the parentDict of an instance over the terms
\* GO:A, GO:B, GO:C, each with parents above it, all of them keys.
AboveInBreadth(t) ==
    CASE t = "GO:A" -> {"GO:B", "GO:C", CC, MF}
      [] t = "GO:B" -> {"GO:C", CC, MF}
      [] t = "GO:C" -> {CC, MF}

BreadthOntologies ==
    {ResetNamespaces(pd) :
        pd \in {d \in [{"GO:A", "GO:B", "GO:C"} -> ParentLists({"GO:B", "GO:C", CC, MF})] :
                   \A t \in DOMAIN d : Range(d[t]) \subseteq AboveInBreadth(t)}}

BreadthTerms == {"GO:A", "GO:B", CC}

InitBreadth ==
    /\ parentDict \in BreadthOntologies
    /\ canonid = EmptyDict
    /\ slim = SlimList
    /\ namespaceSets = EmptyNamespaceSets
    /\ args = NoArgs
    /\ inst = NoInstance
    /\ query = NoQuery
    /\ gen = NoGenerator
    /\ handler = NewHandler
    /\ doc = NoDocument
    /\ OthersIdle

\* self.traverseBreadthFirst(GOterm): a new generator object.
CallBreadth(GOterm) ==
    /\ bfs.status \in {"none", "done", "KeyError"}
    /\ bfs' = [GOterm |-> GOterm, frames |-> <<>>, out |-> <<>>,
               status |-> "created"]
    /\ UNCHANGED <<coreVars, cli, loader, closest>>

\* next(generator)
NextNode ==
    /\ bfs.status \in {"created", "running"}
    /\ \E r \in {BreadthResume(parentDict, bfs.GOterm, bfs.frames, 1)} :
          bfs' = [bfs EXCEPT !.frames = r.frames, !.status = r.status,
                             !.out = @ \o r.yielded]
    /\ UNCHANGED <<coreVars, cli, loader, closest>>

NextBreadth ==
    \/ \E GOterm \in BreadthTerms : CallBreadth(GOterm)
    \/ NextNode

SpecBreadth == InitBreadth /\ [][NextBreadth]_vars

\* C15 (breadth-first covers depth-first): a breadth-first traversal that
\* has ended yielded its term first, and the set of the terms it yielded is
\* the set of the terms the depth-first traversal from that term yields.
BreadthCoversDepth ==
    bfs.status = "done" =>
        /\ bfs.out[1] = bfs.GOterm
        /\ Range(bfs.out) = Range(traverseDepthFirst(parentDict, bfs.GOterm).out)

-----------------------------------------------------------------------------
\* The canonicalized association terms just given from which parent edges
\* lead to a term that is no key of the parent-edge mapping.
Unrooted ==
    {t \in {Resolve(u) : u \in TermsOf(args'.associations)} :
        ~(AncestorsOrSelf(parentDict', t) \subseteq DOMAIN parentDict')}

\* C16 as stated (GOException is the only construction failure): a
\* constructor call raises GOException or completes, and it completes
\* whenever every canonicalized association term is a key of parentDict.
OnlyGOException ==
    [][IsConstruct =>
        /\ inst'.outcome \in {"GOException", "ok"}
        /\ Offending = {} => inst'.outcome = "ok"]_vars

\* C16, amended: a constructor call raises GOException, raises KeyError or
\* completes.  It raises KeyError exactly when every canonicalized
\* association term is a key and from one of them parent edges lead to a
\* term that is no key; the slim is then not assigned.  It completes, with
\* specs and slim built, exactly when every canonicalized association term
\* and every term parent edges lead to from one of them is a key.
ConstructionOutcome ==
    [][IsConstruct =>
        /\ inst'.outcome \in {"GOException", "KeyError", "ok"}
        /\ (inst'.outcome = "KeyError") <=> (Offending = {} /\ Unrooted # {})
        /\ (inst'.outcome = "ok") <=> (Offending = {} /\ Unrooted = {})
        /\ inst'.outcome = "KeyError" => ~inst'.hasSlim
        /\ inst'.outcome = "ok" => inst'.hasSpecs /\ inst'.hasSlim]_vars

\* The constructor raised KeyError on a parsed document: GO:A is_a GO:B,
\* and no element of the document gave GO:B an entry.
ConstructionKeyError ==
    /\ doc.phase = "parsed"
    /\ inst.outcome = "KeyError"
    /\ args.associations = <<<<"GO:A", "gene1">>>>
    /\ "GO:A" \in DOMAIN parentDict
    /\ "GO:B" \in Range(parentDict["GO:A"])
    /\ "GO:B" \notin DOMAIN parentDict

====
